---------------------------- MODULE Spec2Model ----------------------------
(***************************************************************************)
(* Model of parsers/NZ.py: the New Zealand price and production parsers.   *)
(*                                                                         *)
(* fetch_price and fetch_production are stateless transformations: the     *)
(* caller picks an entry point and a target_datetime, the transport        *)
(* (requests.Session) answers one GET, and the call either returns a       *)
(* record or raises.  The state of the model is the caller's position,     *)
(* the arguments, the body the transport will answer with, the log of      *)
(* requests issued to the transport, the JSON object the call decoded and  *)
(* the outcome of the call.                                                *)
(*                                                                         *)
(* Python values are modelled as follows.                                  *)
(*   str    a sequence of one-character strings, <<"5","0",".","0">>       *)
(*   int    an integer                                                     *)
(*   float  an exact decimal fraction [num, den] (no IEEE rounding)        *)
(*   None   the JSON/Python null, Null                                     *)
(*   dict   a function whose DOMAIN is the set of keys                     *)
(*   raise  [kind |-> "raise", exc |-> <exception class>, at |-> <call>]   *)
(***************************************************************************)
EXTENDS Integers, Sequences, FiniteSets, TLC

VARIABLES
    entry,            \* the entry point the caller runs: fetch_price or fetch_production
    pc,               \* "call" before the call, "done" once it returned or raised
    target_datetime,  \* the target_datetime argument, Null for "latest"
    response,         \* the body the session answers the GET with
    requests,         \* the URLs requested from the session so far
    decoded,          \* the local obj of the call, Unbound until assigned
    result            \* the outcome of the call: a returned record or a raise

vars == <<entry, pc, target_datetime, response, requests, decoded, result>>

-----------------------------------------------------------------------------
(* Module-level configuration of NZ.py                                     *)

NZ_PRICE_REGIONS == 1..13

PRODUCTION_URL == "https://www.transpower.co.nz/system-operator/live-system-and-market-data/consolidated-live-data"

PRICE_URL == "https://api.em6.co.nz/ords/em6/data_api/region/price/"

print_arrow_comparison == TRUE

save_outputs == FALSE

-----------------------------------------------------------------------------
(* Python values and outcomes                                              *)

Null == [null |-> TRUE]

Num(n) == [num |-> n]

Raise(exc, at) == [kind |-> "raise", exc |-> exc, at |-> at]

Return(v) == [kind |-> "return", value |-> v]

NotCalled == [kind |-> "not called"]

\* A local name no statement has assigned yet.
Unbound == [unbound |-> TRUE]

\* dict.get(key, default)
DictGet(d, key, default) == IF key \in DOMAIN d THEN d[key] ELSE default

-----------------------------------------------------------------------------
(* Characters                                                              *)

DigitChars == <<"0", "1", "2", "3", "4", "5", "6", "7", "8", "9">>

IsDigit(c) == \E i \in 1..10 : DigitChars[i] = c

DigitVal(c) == (CHOOSE i \in 1..10 : DigitChars[i] = c) - 1

\* The character of s at position p (1-based), "" past the end.
At(s, p) == IF p >= 1 /\ p <= Len(s) THEN s[p] ELSE ""

InRange(c, lo, hi) == IsDigit(c) /\ DigitVal(c) >= lo /\ DigitVal(c) <= hi

\* The integer a run of n digit characters starting at p denotes; a leading
\* space (the " [1-9]" alternative of %d) counts as nothing, as int() does.
RECURSIVE IntOf(_, _, _)
IntOf(s, p, n) ==
    IF n = 0 THEN 0
    ELSE IF At(s, p + n - 1) = " " THEN IntOf(s, p, n - 1)
    ELSE 10 * IntOf(s, p, n - 1) + DigitVal(At(s, p + n - 1))

\* re.IGNORECASE on the two letters the format contains.
Upper(c) == IF c = "t" THEN "T" ELSE IF c = "z" THEN "Z" ELSE c

-----------------------------------------------------------------------------
(* datetime.strptime(time, "%Y-%m-%dT%H:%M:%SZ").replace(tzinfo=utc)        *)
(*                                                                         *)
(* CPython compiles the format to the regular expression                   *)
(*   (?P<Y>\d\d\d\d)-(?P<m>1[0-2]|0[1-9]|[1-9])-                           *)
(*   (?P<d>3[0-1]|[1-2]\d|0[1-9]|[1-9]| [1-9])T(?P<H>2[0-3]|[0-1]\d|\d):   *)
(*   (?P<M>[0-5]\d|\d):(?P<S>6[0-1]|[0-5]\d|\d)Z                           *)
(* with re.IGNORECASE, matches it at the start of the string, rejects      *)
(* unconverted trailing data, and builds the datetime, whose constructor   *)
(* rejects year 0, a day past the end of the month and second 60 or 61.    *)

FormatTokens == <<"%Y", "-", "%m", "-", "%d", "T", "%H", ":", "%M", ":", "%S", "Z">>

IsDirective(tok) == tok \in {"%Y", "%m", "%d", "%H", "%M", "%S"}

\* The alternatives of a directive's group, in the order the regular
\* expression lists them: the length each consumes and whether it matches
\* at position p of s.
DirectiveAlternatives(tok, s, p) ==
    LET a == At(s, p)
        b == At(s, p + 1)
    IN  CASE tok = "%Y" ->
               << [len |-> 4, ok |-> \A i \in 0..3 : IsDigit(At(s, p + i))] >>
          [] tok = "%m" ->
               << [len |-> 2, ok |-> a = "1" /\ InRange(b, 0, 2)],
                  [len |-> 2, ok |-> a = "0" /\ InRange(b, 1, 9)],
                  [len |-> 1, ok |-> InRange(a, 1, 9)] >>
          [] tok = "%d" ->
               << [len |-> 2, ok |-> a = "3" /\ InRange(b, 0, 1)],
                  [len |-> 2, ok |-> InRange(a, 1, 2) /\ IsDigit(b)],
                  [len |-> 2, ok |-> a = "0" /\ InRange(b, 1, 9)],
                  [len |-> 1, ok |-> InRange(a, 1, 9)],
                  [len |-> 2, ok |-> a = " " /\ InRange(b, 1, 9)] >>
          [] tok = "%H" ->
               << [len |-> 2, ok |-> a = "2" /\ InRange(b, 0, 3)],
                  [len |-> 2, ok |-> InRange(a, 0, 1) /\ IsDigit(b)],
                  [len |-> 1, ok |-> IsDigit(a)] >>
          [] tok = "%M" ->
               << [len |-> 2, ok |-> InRange(a, 0, 5) /\ IsDigit(b)],
                  [len |-> 1, ok |-> IsDigit(a)] >>
          [] tok = "%S" ->
               << [len |-> 2, ok |-> a = "6" /\ InRange(b, 0, 1)],
                  [len |-> 2, ok |-> InRange(a, 0, 5) /\ IsDigit(b)],
                  [len |-> 1, ok |-> IsDigit(a)] >>

NoMatch == [ok |-> FALSE]

\* format_regex.match(data_string): a backtracking match of the tokens from
\* token k on, at position p; groups maps each directive seen so far to the
\* integer its group denotes.  alt is the next alternative of token k to try.
RECURSIVE RegexMatch(_, _, _, _, _)
RegexMatch(s, p, k, alt, groups) ==
    IF k > Len(FormatTokens) THEN [ok |-> TRUE, end |-> p, groups |-> groups]
    ELSE LET tok == FormatTokens[k] IN
         IF IsDirective(tok)
         THEN LET alts == DirectiveAlternatives(tok, s, p) IN
              IF alt > Len(alts) THEN NoMatch
              ELSE LET n    == alts[alt].len
                       rest == IF alts[alt].ok
                               THEN RegexMatch(s, p + n, k + 1, 1,
                                               groups @@ (tok :> IntOf(s, p, n)))
                               ELSE NoMatch
                   IN  IF rest.ok THEN rest
                       ELSE RegexMatch(s, p, k, alt + 1, groups)
         ELSE IF At(s, p) # "" /\ Upper(At(s, p)) = tok
              THEN RegexMatch(s, p + 1, k + 1, 1, groups)
              ELSE NoMatch

IsLeap(year) == year % 4 = 0 /\ (year % 100 # 0 \/ year % 400 = 0)

DaysInMonth(year, month) ==
    IF month = 2 THEN (IF IsLeap(year) THEN 29 ELSE 28)
    ELSE IF month \in {4, 6, 9, 11} THEN 30 ELSE 31

\* An aware datetime in UTC.
DateTime(y, mo, d, h, mi, sec) ==
    [year |-> y, month |-> mo, day |-> d, hour |-> h, minute |-> mi,
     second |-> sec, tzinfo |-> "UTC"]

strptime(time) ==
    LET m == RegexMatch(time, 1, 1, 1, <<>>) IN
    IF ~m.ok THEN Raise("ValueError", "strptime")
    ELSE IF m.end # Len(time) + 1 THEN Raise("ValueError", "strptime")
    ELSE LET g == m.groups IN
         IF \/ g["%Y"] < 1
            \/ g["%d"] > DaysInMonth(g["%Y"], g["%m"])
            \/ g["%S"] > 59
         THEN Raise("ValueError", "strptime")
         ELSE Return(DateTime(g["%Y"], g["%m"], g["%d"], g["%H"], g["%M"], g["%S"]))

-----------------------------------------------------------------------------
(* float(item.get("price")) on a str                                       *)
(*                                                                         *)
(* Decimal literals of the form digits[.digits] (the form the price        *)
(* endpoint sends) convert to the number they denote; the empty string and *)
(* text holding any other character raise ValueError.  Signs, exponents,   *)
(* surrounding blanks, "inf" and "nan" are outside the inputs drawn here.  *)

RECURSIVE GCD(_, _)
GCD(a, b) == IF b = 0 THEN a ELSE GCD(b, a % b)

\* The number n/d (d > 0) as a fraction in lowest terms.
Fraction(n, d) == LET g == GCD(IF n < 0 THEN -n ELSE n, d)
                  IN  [num |-> n \div g, den |-> d \div g]

RECURSIVE Pow10(_)
Pow10(n) == IF n = 0 THEN 1 ELSE 10 * Pow10(n - 1)

\* The position of the first "." of s, Len(s) + 1 when it has none.
RECURSIVE DotAt(_, _)
DotAt(s, p) == IF p > Len(s) \/ s[p] = "." THEN p ELSE DotAt(s, p + 1)

float(text) ==
    LET dot   == DotAt(text, 1)
        whole == dot - 1
        frac  == IF dot > Len(text) THEN 0 ELSE Len(text) - dot
        digitsOnly == /\ \A i \in 1..Len(text) : i # dot => IsDigit(text[i])
                      /\ whole + frac >= 1
    IN  IF ~digitsOnly THEN Raise("ValueError", "float")
        ELSE Return(Fraction(IntOf(text, 1, whole) * Pow10(frac)
                               + IntOf(text, dot + 1, frac),
                             Pow10(frac)))

FAdd(x, y) == Fraction(x.num * y.den + y.num * x.den, x.den * y.den)

\* sum(region_prices), starting from 0
RECURSIVE sum(_)
sum(xs) == IF xs = <<>> THEN [num |-> 0, den |-> 1]
           ELSE FAdd(sum(SubSeq(xs, 1, Len(xs) - 1)), xs[Len(xs)])

-----------------------------------------------------------------------------
(* arrow.get(time, tzinfo="UTC") in the comparison printout                *)
(*                                                                         *)
(* With print_arrow_comparison set, fetch_price parses `time` with arrow   *)
(* after strptime returned, so a string strptime converted can still make  *)
(* the call raise arrow's ParserError.  arrow's ISO parser splits the      *)
(* string at an upper-case "T", refuses a string holding a blank together  *)
(* with the "T", wants the time of day as two-digit fields, and reads the  *)
(* date with one of YYYY-MM-DD, YYYY-M-DD, YYYY-M-D, whose M and D tokens  *)
(* take one or two digits.  Of the strings strptime converts it therefore  *)
(* returns on those of the form <date>THH:MM:SSZ and raises on the others; *)
(* a lower-case "z" suffix is left open.                                   *)

IsIso8601UtcShape(time) ==
    /\ Len(time) = 20
    /\ \A i \in {1, 2, 3, 4, 6, 7, 9, 10, 12, 13, 15, 16, 18, 19} : IsDigit(time[i])
    /\ time[5] = "-" /\ time[8] = "-" /\ time[11] = "T"
    /\ time[14] = ":" /\ time[17] = ":" /\ time[20] = "Z"

\* time, a string strptime converted, ends in THH:MM:SS and one more
\* character, and holds no blank.
HasArrowTimeOfDay(time) ==
    LET n == Len(time) IN
    /\ n >= 10
    /\ time[n - 9] = "T"
    /\ \A i \in {n - 8, n - 7, n - 5, n - 4, n - 2, n - 1} : IsDigit(time[i])
    /\ time[n - 6] = ":" /\ time[n - 3] = ":"
    /\ \A i \in 1..n : time[i] # " "

\* What the printout of fetch_price can do once strptime converted time:
\* raise ParserError (TRUE) or return (FALSE).
ArrowRaises(time) ==
    IF IsIso8601UtcShape(time) THEN {FALSE}
    ELSE IF ~HasArrowTimeOfDay(time) THEN {TRUE}
    ELSE IF time[Len(time)] = "Z" THEN {FALSE}
    ELSE {FALSE, TRUE}

-----------------------------------------------------------------------------
(* fetch_price                                                             *)

\* PriceLoop with a sample of a region outside the set counted as a zero price.
RECURSIVE PriceLoopZeroForInvalid(_, _, _, _)
PriceLoopZeroForInvalid(items, i, time, region_prices) ==
    IF i > Len(items)
    THEN [kind |-> "done", time |-> time, region_prices |-> region_prices]
    ELSE LET item   == items[i]
             region == item.grid_zone_id
         IN  IF region \in NZ_PRICE_REGIONS
             THEN LET price == float(item.price) IN
                  IF price.kind = "raise" THEN price
                  ELSE PriceLoopZeroForInvalid(items, i + 1, item.timestamp,
                                               Append(region_prices, price.value))
             ELSE PriceLoopZeroForInvalid(items, i + 1, time,
                                          Append(region_prices, [num |-> 0, den |-> 1]))

\* PriceLoop with `time` assigned before the region test, for every item.
RECURSIVE PriceLoopTimeOfEveryItem(_, _, _, _)
PriceLoopTimeOfEveryItem(items, i, time, region_prices) ==
    IF i > Len(items)
    THEN [kind |-> "done", time |-> time, region_prices |-> region_prices]
    ELSE LET item   == items[i]
             region == item.grid_zone_id
         IN  IF region \in NZ_PRICE_REGIONS
             THEN LET price == float(item.price) IN
                  IF price.kind = "raise" THEN price
                  ELSE PriceLoopTimeOfEveryItem(items, i + 1, item.timestamp,
                                                Append(region_prices, price.value))
             ELSE PriceLoopTimeOfEveryItem(items, i + 1, item.timestamp, region_prices)

\* PriceLoop with the timestamp of every valid-region sample parsed in the pass.
RECURSIVE PriceLoopParsesEveryTimestamp(_, _, _, _)
PriceLoopParsesEveryTimestamp(items, i, time, region_prices) ==
    IF i > Len(items)
    THEN [kind |-> "done", time |-> time, region_prices |-> region_prices]
    ELSE LET item   == items[i]
             region == item.grid_zone_id
         IN  IF region \in NZ_PRICE_REGIONS
             THEN LET price == float(item.price) IN
                  IF strptime(item.timestamp).kind = "raise" THEN strptime(item.timestamp)
                  ELSE IF price.kind = "raise" THEN price
                  ELSE PriceLoopParsesEveryTimestamp(items, i + 1, item.timestamp,
                                                     Append(region_prices, price.value))
             ELSE PriceLoopParsesEveryTimestamp(items, i + 1, time, region_prices)

\* The for loop over obj.get("items"), from item i on: the last `time`
\* assigned and the prices appended, or the exception float() raised.
RECURSIVE PriceLoop(_, _, _, _)
PriceLoop(items, i, time, region_prices) ==
    IF i > Len(items)
    THEN [kind |-> "done", time |-> time, region_prices |-> region_prices]
    ELSE LET item   == items[i]
             region == item.grid_zone_id
         IN  IF region \in NZ_PRICE_REGIONS
             THEN LET price == float(item.price) IN
                  IF price.kind = "raise" THEN price
                  ELSE PriceLoop(items, i + 1, item.timestamp,
                                 Append(region_prices, price.value))
             ELSE PriceLoop(items, i + 1, time, region_prices)

\* sum(region_prices) / len(region_prices), for a non-empty list
Average(region_prices) ==
    LET total == sum(region_prices)
    IN  Fraction(total.num, total.den * Len(region_prices))

\* The body of fetch_price after the request, obj being response.json():
\* the set of outcomes it can have (one, or two where the printout may raise).
\* `time` is assigned whenever a price is appended, so the read of an
\* unassigned `time` at the strptime call is never reached.
PriceFromResponse(zone_key, obj) ==
    IF "items" \notin DOMAIN obj THEN {Raise("TypeError", "for")}
    ELSE LET loop == PriceLoop(obj.items, 1, Unbound, <<>>) IN
         IF loop.kind = "raise" THEN {loop}
         ELSE IF Len(loop.region_prices) = 0 THEN {Raise("ZeroDivisionError", "/")}
         ELSE IF loop.time = Unbound THEN {Raise("UnboundLocalError", "time")}
         ELSE LET avg_price == Average(loop.region_prices)
                  date_time == strptime(loop.time)
              IN  IF date_time.kind = "raise" THEN {date_time}
                  ELSE { IF print_arrow_comparison /\ arrow_raises
                         THEN Raise("ParserError", "arrow.get")
                         ELSE Return([datetime |-> date_time.value,
                                      price    |-> avg_price,
                                      currency |-> "NZD",
                                      source   |-> "api.em6.co.nz",
                                      zoneKey  |-> zone_key]) :
                         arrow_raises \in ArrowRaises(loop.time) }

\* fetch_price with the request issued before target_datetime is tested.
fetch_priceRequestsFirst(zone_key, body, target) ==
    IF target # Null
    THEN { [result |-> Raise("NotImplementedError", "fetch_price"),
            issued |-> <<PRICE_URL>>, obj |-> Unbound] }
    ELSE { [result |-> r, issued |-> <<PRICE_URL>>, obj |-> body] :
             r \in PriceFromResponse(zone_key, body) }

\* fetch_price(zone_key, session, target_datetime): the outcomes the call
\* can have, each with the requests it issued to the session, whose answer
\* to the GET is body.
fetch_price(zone_key, body, target) ==
    IF target # Null
    THEN { [result |-> Raise("NotImplementedError", "fetch_price"),
            issued |-> <<>>, obj |-> Unbound] }
    ELSE { [result |-> r, issued |-> <<PRICE_URL>>, obj |-> body] :
             r \in PriceFromResponse(zone_key, body) }

-----------------------------------------------------------------------------
(* fetch: the JSON embedded in the production page                         *)
(*                                                                         *)
(* The page is modelled as the sequence of elements BeautifulSoup finds in *)
(* document order, each [name, attrs, contents]; a text node is either the *)
(* serialisation of a JSON value or text json.loads rejects.               *)

JsonText(v) == [parses |-> TRUE, value |-> v]

NotJson == [parses |-> FALSE]

\* json.loads(body)
json_loads(body) == IF body.parses THEN Return(body.value)
                    ELSE Raise("JSONDecodeError", "json.loads")

\* soup.find_all("script")
find_all(soup, name) == SelectSeq(soup, LAMBDA e : e.name = name)

\* ScriptLoop keeping the first marked script's JSON instead of overwriting it.
RECURSIVE ScriptLoopFirstWins(_, _, _)
ScriptLoopFirstWins(scripts, i, obj) ==
    IF i > Len(scripts) THEN [kind |-> "done", obj |-> obj]
    ELSE LET item == scripts[i] IN
         IF DictGet(item.attrs, "data-drupal-selector", "") # ""
         THEN IF Len(item.contents) = 0 THEN Raise("IndexError", "contents[0]")
              ELSE LET parsed == json_loads(item.contents[1]) IN
                   IF parsed.kind = "raise" THEN parsed
                   ELSE ScriptLoopFirstWins(scripts, i + 1,
                                            IF obj = Unbound THEN parsed.value ELSE obj)
         ELSE ScriptLoopFirstWins(scripts, i + 1, obj)

\* The for loop of fetch over the script elements, from element i on: the
\* last obj assigned (Unbound when none was), or the exception raised.
RECURSIVE ScriptLoop(_, _, _)
ScriptLoop(scripts, i, obj) ==
    IF i > Len(scripts) THEN [kind |-> "done", obj |-> obj]
    ELSE LET item == scripts[i] IN
         IF DictGet(item.attrs, "data-drupal-selector", "") # ""
         THEN IF Len(item.contents) = 0 THEN Raise("IndexError", "contents[0]")
              ELSE LET parsed == json_loads(item.contents[1]) IN
                   IF parsed.kind = "raise" THEN parsed
                   ELSE ScriptLoop(scripts, i + 1, parsed.value)
         ELSE ScriptLoop(scripts, i + 1, obj)

\* fetch(session), given the page the session answers with.
fetch(soup) ==
    LET loop == ScriptLoop(find_all(soup, "script"), 1, Unbound) IN
    IF loop.kind = "raise" THEN loop
    ELSE IF loop.obj = Unbound THEN Raise("UnboundLocalError", "return obj")
    ELSE Return(loop.obj)

-----------------------------------------------------------------------------
(* datetime.fromtimestamp(ts, tz=timezone.utc) for an integer ts >= 0      *)

fromtimestamp(ts) ==
    LET days == ts \div 86400
        secs == ts % 86400
        z    == days + 719468
        era  == z \div 146097
        doe  == z - era * 146097
        yoe  == (doe - doe \div 1460 + doe \div 36524 - doe \div 146096) \div 365
        doy  == doe - (365 * yoe + yoe \div 4 - yoe \div 100)
        mp   == (5 * doy + 2) \div 153
        d    == doy - (153 * mp + 2) \div 5 + 1
        m    == IF mp < 10 THEN mp + 3 ELSE mp - 9
        y    == yoe + era * 400 + (IF m <= 2 THEN 1 ELSE 0)
    IN  DateTime(y, m, d, secs \div 3600, (secs % 3600) \div 60, secs % 60)

-----------------------------------------------------------------------------
(* fetch_production                                                        *)

\* Output key -> provider category, for the "production" mapping.
ProductionCategories ==
    ("coal" :> "Coal") @@ ("oil" :> "Diesel/Oil") @@ ("gas" :> "Gas") @@
    ("geothermal" :> "Geothermal") @@ ("wind" :> "Wind") @@ ("hydro" :> "Hydro") @@
    ("solar" :> "Solar") @@ ("unknown" :> "Co-Gen")

\* Output key -> provider category, for the "capacity" mapping.
CapacityCategories ==
    ("coal" :> "Coal") @@ ("oil" :> "Diesel/Oil") @@ ("gas" :> "Gas") @@
    ("geothermal" :> "Geothermal") @@ ("wind" :> "Wind") @@ ("hydro" :> "Hydro") @@
    ("solar" :> "Solar") @@ ("battery storage" :> "Battery") @@ ("unknown" :> "Co-Gen")

\* Output key -> provider category, for the "storage" mapping.
StorageCategories == ("battery" :> "Battery")

\* Entry with a default of {field: 0}.
EntryDefaultsToZero(productions, category, field) ==
    DictGet(productions, category, (field :> Num(0)))

\* productions.get(category, {field: None}): the entry [field] is read from.
Entry(productions, category, field) == DictGet(productions, category, (field :> Null))

\* Whether productions.get(category, {field: None})[field] raises KeyError.
Missing(productions, category, field) ==
    field \notin DOMAIN Entry(productions, category, field)

\* Nuclear read from the payload like every other category.
NuclearFromPayload(productions) ==
    IF "Nuclear" \in DOMAIN productions /\ "generation" \in DOMAIN productions["Nuclear"]
    THEN productions["Nuclear"]["generation"]
    ELSE Null

\* The hard-coded "nuclear": 0 entries.
Nuclear(productions) == Num(0)

\* {out: productions.get(categories[out], {field: None})[field], ...}
Mapped(productions, categories, field) ==
    [out \in DOMAIN categories |-> Entry(productions, categories[out], field)[field]]

\* The body of fetch_production once fetch returned obj.
ProductionFromObject(zone_key, obj) ==
    LET region_key == "New Zealand" IN
    IF "soPgenGraph" \notin DOMAIN obj THEN Raise("KeyError", "soPgenGraph")
    ELSE LET graph == obj.soPgenGraph IN
    IF "timestamp" \notin DOMAIN graph THEN Raise("KeyError", "timestamp")
    ELSE IF "data" \notin DOMAIN graph THEN Raise("KeyError", "data")
    ELSE IF region_key \notin DOMAIN graph.data THEN Raise("KeyError", region_key)
    ELSE LET productions == graph.data[region_key] IN
    IF \/ \E out \in DOMAIN ProductionCategories :
             Missing(productions, ProductionCategories[out], "generation")
       \/ \E out \in DOMAIN CapacityCategories :
             Missing(productions, CapacityCategories[out], "capacity")
       \/ \E out \in DOMAIN StorageCategories :
             Missing(productions, StorageCategories[out], "generation")
    THEN Raise("KeyError", "generation/capacity")
    ELSE Return([zoneKey    |-> zone_key,
                 datetime   |-> fromtimestamp(graph.timestamp),
                 production |-> Mapped(productions, ProductionCategories, "generation")
                                @@ ("nuclear" :> Nuclear(productions)),
                 capacity   |-> Mapped(productions, CapacityCategories, "capacity")
                                @@ ("nuclear" :> Nuclear(productions)),
                 storage    |-> Mapped(productions, StorageCategories, "generation"),
                 source     |-> "transpower.co.nz"])

\* fetch_production(zone_key, session, target_datetime): the outcomes the
\* call can have (always one), each with the requests it issued to the
\* session, whose answer to the GET is body.
fetch_production(zone_key, body, target) ==
    IF target # Null
    THEN { [result |-> Raise("NotImplementedError", "fetch_production"),
            issued |-> <<>>, obj |-> Unbound] }
    ELSE LET fetched == fetch(body) IN
         IF fetched.kind = "raise"
         THEN { [result |-> fetched, issued |-> <<PRODUCTION_URL>>, obj |-> Unbound] }
         ELSE { [result |-> ProductionFromObject(zone_key, fetched.value),
                 issued |-> <<PRODUCTION_URL>>, obj |-> fetched.value] }

-----------------------------------------------------------------------------
(* Inputs: the arguments of a call and the body the transport answers with *)

MaxItems == 3

MaxElements == 3

MaxCategories == 2

\* All sequences over S of length at most n.
SeqsUpTo(S, n) == UNION {[1..k -> S] : k \in 0..n}

T0000 == <<"2","0","2","4","-","0","1","-","0","1","T","0","0",":","0","0",":","0","0","Z">>

T0005 == <<"2","0","2","4","-","0","1","-","0","1","T","0","0",":","0","5",":","0","0","Z">>

\* "2024-01-01 00:00:00": a space for the T and no trailing Z
TSpace == <<"2","0","2","4","-","0","1","-","0","1"," ","0","0",":","0","0",":","0","0">>

P50 == <<"5","0",".","0">>

P60 == <<"6","0",".","5">>

PNotANumber == <<"n","/","a">>

RegionIdSamples == {0, 1, 13, 14}

\* (timestamp, price) of the price samples drawn for a payload of several.
StampPriceSamples ==
    { <<T0000, P50>>, <<T0005, P60>>, <<TSpace, P50>>, <<T0000, PNotANumber>> }

ItemSamples ==
    { [grid_zone_id |-> r, timestamp |-> sp[1], price |-> sp[2]] :
        r \in RegionIdSamples, sp \in StampPriceSamples }

\* Price payloads of up to n samples, and one without "items".
PricePayloads(n) ==
    { [items |-> its] : its \in SeqsUpTo(ItemSamples, n) }
    \cup { [message |-> "error"] }

\* Timestamp texts assembled from well-formed and malformed fields.
YearTexts == { <<"2","0","2","4">>, <<"2","0","2","3">>, <<"2","4">>, <<"0","0","0","0">> }

MonthTexts == { <<"0","1">>, <<"1">>, <<"0","2">>, <<"1","3">> }

DayTexts == { <<"0","1">>, <<"1">>, <<" ","1">>, <<"2","9">>, <<"3","0">> }

DateTimeSeparators == { <<"T">>, <<"t">>, <<" ">> }

HourTexts == { <<"0","0">>, <<"0">>, <<"2","4">> }

MinuteTexts == { <<"0","5">>, <<"5">> }

SecondTexts == { <<"0","0">>, <<"0">>, <<"6","0">>, <<"0","0",".","5">> }

Suffixes == { <<"Z">>, <<>>, <<"+","0","0",":","0","0">>, <<"Z"," ">> }

TimestampTexts ==
    { y \o <<"-">> \o mo \o <<"-">> \o d \o sep \o h \o <<":">> \o mi \o <<":">> \o s \o z :
        y \in YearTexts, mo \in MonthTexts, d \in DayTexts, sep \in DateTimeSeparators,
        h \in HourTexts, mi \in MinuteTexts, s \in SecondTexts, z \in Suffixes }

\* Price payloads of one valid-region sample carrying each timestamp text.
StampPayloads ==
    { [items |-> << [grid_zone_id |-> 1, timestamp |-> ts, price |-> P50] >>] :
        ts \in TimestampTexts }

ProviderCategories ==
    {"Coal", "Diesel/Oil", "Gas", "Geothermal", "Wind", "Hydro", "Solar", "Co-Gen",
     "Battery", "Nuclear"}

\* Category entries: both figures, zero figures, null figures, and an
\* entry with no "generation" key.
EntrySamples ==
    { [generation |-> Num(1200), capacity |-> Num(1500)],
      [generation |-> Num(0), capacity |-> Num(0)],
      [generation |-> Null, capacity |-> Null],
      [capacity |-> Num(5)] }

\* Region entries holding at most MaxCategories provider categories.
RegionEntries ==
    UNION { [cats -> EntrySamples] :
              cats \in {S \in SUBSET ProviderCategories : Cardinality(S) <= MaxCategories} }

\* 2024-01-01T00:00:00Z in seconds since the epoch
Epoch2024 == 19723 * 86400

Embedded(productions) ==
    [soPgenGraph |-> [timestamp |-> Epoch2024,
                      data |-> ("New Zealand" :> productions)]]

\* Embedded objects lacking one of the keys fetch_production subscripts.
BrokenObjects ==
    { [other |-> Null],
      [soPgenGraph |-> [data |-> ("New Zealand" :> [Hydro |-> [generation |-> Num(1200), capacity |-> Num(1500)]])]],
      [soPgenGraph |-> [timestamp |-> Epoch2024]],
      [soPgenGraph |-> [timestamp |-> Epoch2024,
                        data |-> ("North Island" :> [Hydro |-> [generation |-> Num(1200), capacity |-> Num(1500)]])]] }

MarkedScript(obj) ==
    [name |-> "script", attrs |-> ("data-drupal-selector" :> "drupal-settings-json"),
     contents |-> << JsonText(obj) >>]

\* Pages of one marked script embedding each object.
ObjectPages ==
    { << MarkedScript(obj) >> : obj \in {Embedded(p) : p \in RegionEntries} \cup BrokenObjects }

ObjectA == Embedded([Hydro |-> [generation |-> Num(1200), capacity |-> Num(1500)]])

ObjectB == Embedded([Coal |-> [generation |-> Num(0), capacity |-> Num(0)]])

AttrsSamples ==
    { ("type" :> "application/json"),
      ("data-drupal-selector" :> ""),
      ("data-drupal-selector" :> "drupal-settings-json") }

ContentsSamples == { <<>>, << NotJson >>, << JsonText(ObjectA) >>, << JsonText(ObjectB) >> }

ElementSamples ==
    { [name |-> "script", attrs |-> a, contents |-> c] :
        a \in AttrsSamples, c \in ContentsSamples }
    \cup { [name |-> "div", attrs |-> ("data-drupal-selector" :> "drupal-settings-json"),
            contents |-> << JsonText(ObjectB) >>] }

\* Pages of up to n elements.
ElementPages(n) == SeqsUpTo(ElementSamples, n)

\* A target_datetime a caller asking for historical data passes.
PastDate == DateTime(2020, 1, 1, 0, 0, 0)

-----------------------------------------------------------------------------
(* The state machine: one call of one entry point                          *)

Init ==
    /\ pc = "call"
    /\ requests = <<>>
    /\ decoded = Unbound
    /\ result = NotCalled
    /\ \/ /\ entry = "fetch_price"
          /\ response \in PricePayloads(MaxItems) \cup StampPayloads
          /\ target_datetime = Null
       \/ /\ entry = "fetch_production"
          /\ response \in ObjectPages \cup ElementPages(MaxElements)
          /\ target_datetime = Null
       \/ /\ entry = "fetch_price"
          /\ response \in PricePayloads(1)
          /\ target_datetime = PastDate
       \/ /\ entry = "fetch_production"
          /\ response \in ElementPages(1)
          /\ target_datetime = PastDate

\* The caller runs fetch_price("NZ", session, target_datetime).
FetchPrice ==
    /\ pc = "call"
    /\ entry = "fetch_price"
    /\ \E call \in fetch_price("NZ", response, target_datetime) :
         /\ result' = call.result
         /\ requests' = requests \o call.issued
         /\ decoded' = call.obj
    /\ pc' = "done"
    /\ UNCHANGED <<entry, target_datetime, response>>

\* The caller runs fetch_production("NZ", session, target_datetime).
FetchProduction ==
    /\ pc = "call"
    /\ entry = "fetch_production"
    /\ \E call \in fetch_production("NZ", response, target_datetime) :
         /\ result' = call.result
         /\ requests' = requests \o call.issued
         /\ decoded' = call.obj
    /\ pc' = "done"
    /\ UNCHANGED <<entry, target_datetime, response>>

Next == FetchPrice \/ FetchProduction

Spec == Init /\ [][Next]_vars

-----------------------------------------------------------------------------
(* Properties                                                              *)

\* The valid-region set of the specification.
ValidRegionSet == 1..13

PriceCalled == entry = "fetch_price" /\ pc = "done" /\ target_datetime = Null

PriceReturned == PriceCalled /\ result.kind = "return"

ProductionCalled == entry = "fetch_production" /\ pc = "done" /\ target_datetime = Null

ProductionReturned == ProductionCalled /\ result.kind = "return"

HasItems == "items" \in DOMAIN response

\* The positions of the samples whose region id is in the valid set.
ValidSamples(items) == {i \in 1..Len(items) : items[i].grid_zone_id \in ValidRegionSet}

Last(S) == CHOOSE i \in S : \A j \in S : j <= i

\* The sum of the prices of the samples at the positions in V.
RECURSIVE PriceSum(_, _)
PriceSum(items, V) ==
    IF V = {} THEN [num |-> 0, den |-> 1]
    ELSE LET i == CHOOSE x \in V : TRUE
         IN  FAdd(float(items[i].price).value, PriceSum(items, V \ {i}))

\* price is the unweighted mean of the prices of the samples at V.
IsMeanOf(price, items, V) ==
    LET total == PriceSum(items, V)
    IN  price.num * total.den * Cardinality(V) = total.num * price.den

Malformed(time) == strptime(time).kind = "raise"

NonNumeric(price) == float(price).kind = "raise"

\* Whether datetime a is later than datetime b.
Later(a, b) ==
    LET ka == <<a.year, a.month, a.day, a.hour, a.minute, a.second>>
        kb == <<b.year, b.month, b.day, b.hour, b.minute, b.second>>
    IN  \E i \in 1..6 : ka[i] > kb[i] /\ \A j \in 1..(i - 1) : ka[j] = kb[j]

\* C1: whenever fetch_price returns a record, its price is the unweighted
\* arithmetic mean of the prices of exactly the samples whose region id is
\* in 1..13; samples of other regions change neither the sum nor the count.
C1_PriceIsMeanOfValidSamples ==
    PriceReturned =>
        LET V == ValidSamples(response.items)
        IN  V # {} /\ IsMeanOf(result.value.price, response.items, V)

\* A record returned from two valid samples of different prices and a
\* sample of a region outside the set.
C1_Witness ==
    /\ PriceReturned
    /\ \E i, j \in ValidSamples(response.items) :
           response.items[i].price # response.items[j].price
    /\ \E k \in 1..Len(response.items) : k \notin ValidSamples(response.items)

\* C2 (as claimed): with no sample in the valid-region set, fetch_price
\* fails with the named NoDataError and produces no record.
C2_NoDataErrorOnNoValidSample ==
    (PriceCalled /\ HasItems /\ ValidSamples(response.items) = {}) =>
        (result.kind = "raise" /\ result.exc = "NoDataError")

\* C3: the datetime of the record fetch_price returns is the conversion of
\* the timestamp of the last sample, in payload order, whose region id is in
\* the valid set.
C3_DatetimeOfLastValidSample ==
    PriceReturned =>
        LET V == ValidSamples(response.items)
        IN  /\ V # {}
            /\ strptime(response.items[Last(V)].timestamp) = Return(result.value.datetime)

\* A record whose datetime is that of the last valid sample although an
\* earlier valid sample is chronologically later and a sample of a region
\* outside the set, with another timestamp, follows.
C3_Witness ==
    /\ PriceReturned
    /\ LET items == response.items
           V     == ValidSamples(items)
       IN  /\ \E i \in V : /\ i < Last(V)
                           /\ ~Malformed(items[i].timestamp)
                           /\ Later(strptime(items[i].timestamp).value,
                                    result.value.datetime)
           /\ strptime(items[Last(V)].timestamp) = Return(result.value.datetime)
           /\ \E k \in 1..Len(items) : /\ k > Last(V)
                                       /\ items[k].timestamp # items[Last(V)].timestamp

\* The region entry of the embedded JSON fetch_production decoded.
RegionEntry == decoded.soPgenGraph.data["New Zealand"]

\* <<output key, provider category>> of the production and storage
\* mappings (generation figures) and of the capacity mapping.
GenerationPairs ==
    { <<"coal", "Coal">>, <<"oil", "Diesel/Oil">>, <<"gas", "Gas">>,
      <<"geothermal", "Geothermal">>, <<"wind", "Wind">>, <<"hydro", "Hydro">>,
      <<"solar", "Solar">>, <<"unknown", "Co-Gen">> }

CapacityPairs == GenerationPairs \cup { <<"battery storage", "Battery">> }

StoragePairs == { <<"battery", "Battery">> }

\* The output field holds the sub-field of the category when the region
\* entry has the category, and the null sentinel (not zero) when it has not.
FieldFollows(mapping, pairs, field) ==
    \A pr \in pairs :
        /\ pr[1] \in DOMAIN mapping
        /\ IF pr[2] \in DOMAIN RegionEntry
           THEN mapping[pr[1]] = RegionEntry[pr[2]][field]
           ELSE mapping[pr[1]] = Null /\ mapping[pr[1]] # Num(0)

\* C4: every record fetch_production returns has the fixed key sets, and
\* each field is the generation/capacity sub-field of its provider category
\* when the region entry has the category and the null sentinel, never zero
\* and never an absent key, when it has not.
C4_FixedKeysAndNullForMissing ==
    ProductionReturned =>
        LET rec == result.value IN
        /\ DOMAIN rec.production = {"coal", "oil", "gas", "geothermal", "wind",
                                    "hydro", "solar", "unknown", "nuclear"}
        /\ DOMAIN rec.capacity = {"coal", "oil", "gas", "geothermal", "wind", "hydro",
                                  "solar", "unknown", "nuclear", "battery storage"}
        /\ DOMAIN rec.storage = {"battery"}
        /\ FieldFollows(rec.production, GenerationPairs, "generation")
        /\ FieldFollows(rec.capacity, CapacityPairs, "capacity")
        /\ FieldFollows(rec.storage, StoragePairs, "generation")

\* A record returned for a region entry that has Hydro and no Coal.
C4_Witness ==
    /\ ProductionReturned
    /\ "Coal" \notin DOMAIN RegionEntry
    /\ "Hydro" \in DOMAIN RegionEntry
    /\ result.value.production["hydro"] = Num(1200)
    /\ result.value.capacity["coal"] = Null

\* C5: in every record fetch_production returns, production.nuclear and
\* capacity.nuclear are exactly 0, whatever the payload holds.
C5_NuclearIsZero ==
    ProductionReturned =>
        /\ result.value.production["nuclear"] = Num(0)
        /\ result.value.capacity["nuclear"] = Num(0)

\* A record returned for a region entry that carries a Nuclear category
\* with non-zero figures.
C5_Witness ==
    /\ ProductionReturned
    /\ "Nuclear" \in DOMAIN RegionEntry
    /\ RegionEntry["Nuclear"] = [generation |-> Num(1200), capacity |-> Num(1500)]

\* C6: with a target datetime supplied, fetch_price and fetch_production
\* both raise NotImplementedError (the parser's unsupported-operation error,
\* raised nowhere else), before any request is issued to the session and
\* without decoding a payload or producing a record.
C6_HistoricalRequestsRejected ==
    /\ (pc = "done" /\ target_datetime # Null) =>
           /\ result = Raise("NotImplementedError", entry)
           /\ requests = <<>>
           /\ decoded = Unbound
    /\ (pc = "done" /\ result.kind = "raise" /\ result.exc = "NotImplementedError") =>
           target_datetime # Null

\* fetch_price was run with a target datetime on a payload that yields a
\* record when no target datetime is given.
C6_Witness ==
    /\ pc = "done"
    /\ entry = "fetch_price"
    /\ target_datetime # Null
    /\ HasItems
    /\ \E i \in ValidSamples(response.items) :
           /\ ~NonNumeric(response.items[i].price)
           /\ ~Malformed(response.items[i].timestamp)

\* C7 (as claimed): a timestamp that deviates from the exact shape
\* YYYY-MM-DDTHH:MM:SSZ makes price normalization fail with a timestamp
\* format error (the ValueError of strptime, or the ParserError of the
\* printout that parses the same string); it is never turned into an instant.
C7_OnlyExactShapeConverted ==
    (PriceCalled /\ HasItems /\ ValidSamples(response.items) # {}
       /\ (\A i \in ValidSamples(response.items) : ~NonNumeric(response.items[i].price))
       /\ ~IsIso8601UtcShape(response.items[Last(ValidSamples(response.items))].timestamp))
    => (result.kind = "raise" /\ result.at \in {"strptime", "arrow.get"})

\* The positions of the script elements carrying the marker attribute with
\* a non-empty value.
MarkedScripts(page) ==
    {i \in 1..Len(page) :
        /\ page[i].name = "script"
        /\ "data-drupal-selector" \in DOMAIN page[i].attrs
        /\ page[i].attrs["data-drupal-selector"] # ""}

\* C8 (as claimed): a page with no marked script element makes the
\* extraction fail with the typed ExtractionError.
C8_ExtractionErrorOnNoMarkedScript ==
    (ProductionCalled /\ MarkedScripts(response) = {}) =>
        (result.kind = "raise" /\ result.exc = "ExtractionError")

\* C9: when every marked script element of the page holds valid JSON text,
\* the object fetch hands to fetch_production is the JSON of the last marked
\* script element in document order; elements without the marker and
\* elements that are not scripts do not affect it.
C9_LastMarkedScriptWins ==
    (ProductionCalled /\ MarkedScripts(response) # {}
       /\ \A i \in MarkedScripts(response) :
              Len(response[i].contents) > 0 /\ response[i].contents[1].parses)
    => decoded = response[Last(MarkedScripts(response))].contents[1].value

\* Two marked scripts with different JSON, followed by an element that
\* holds JSON other than the last marked script's and is not a marked script.
C9_Witness ==
    /\ ProductionCalled
    /\ LET M == MarkedScripts(response) IN
       /\ \A i \in M : Len(response[i].contents) > 0 /\ response[i].contents[1].parses
       /\ \E i, j \in M : i < j /\ response[i].contents[1] # response[j].contents[1]
       /\ M # {}
       /\ \E k \in 1..Len(response) :
              /\ k > Last(M)
              /\ response[k].contents # <<>>
              /\ response[k].contents[1].parses
              /\ response[k].contents[1] # response[Last(M)].contents[1]
       /\ decoded = response[Last(M)].contents[1].value

\* C10: in fetch_price only the timestamp of the last valid-region sample
\* is parsed, while the price of every valid-region sample is converted in
\* the pass.  (a) When every valid-region price is numeric and the last
\* valid-region timestamp has the exact shape and converts, the call returns
\* the record of that timestamp and of the mean price, whatever the other
\* timestamps are.  (b) A non-numeric price on any valid-region sample makes
\* the call raise float's ValueError, whatever the timestamps are and also
\* when it is the only valid-region sample.
C10_OnlyLastTimestampParsed ==
    (PriceCalled /\ HasItems) =>
        LET items == response.items
            V     == ValidSamples(items)
        IN  /\ (/\ V # {}
                /\ \A i \in V : ~NonNumeric(items[i].price)
                /\ IsIso8601UtcShape(items[Last(V)].timestamp)
                /\ ~Malformed(items[Last(V)].timestamp))
               => /\ result.kind = "return"
                  /\ strptime(items[Last(V)].timestamp) = Return(result.value.datetime)
                  /\ IsMeanOf(result.value.price, items, V)
            /\ (\E i \in V : NonNumeric(items[i].price))
               => result = Raise("ValueError", "float")

\* A record returned although a valid-region sample that another
\* valid-region sample follows, and a sample of a region outside the set,
\* carry a malformed timestamp.
C10_Witness ==
    /\ PriceReturned
    /\ LET items == response.items
           V     == ValidSamples(items)
       IN  /\ \E i \in V : i < Last(V) /\ Malformed(items[i].timestamp)
           /\ \E k \in 1..Len(items) : k \notin V /\ Malformed(items[k].timestamp)

=============================================================================
